---- MODULE Spec2Model ----
(***************************************************************************)
(* Model of NCCDC/csv_to_graph.py: plot_csv_features, the flow aggregation *)
(* and classification run over one ingested CSV file.                      *)
(*                                                                         *)
(* A flow record carries the columns the aggregation reads: rownum,        *)
(* protocol, time, src, dst, length and flags.  The columns src_port,      *)
(* dst_port, ttl and fragment are only handed to the scatter plots and are *)
(* left out.  rownum is the row's ordinal in the file, so it is unique and *)
(* np.sort's tie-break on the remaining columns ends at rownum.            *)
(*                                                                         *)
(* Python values: None is the empty tuple, a bound value v is <<v>>.       *)
(* A str is the sequence of its decimal digits.  A dict is a function on   *)
(* its keys.                                                               *)
(***************************************************************************)
EXTENDS Integers, Sequences, FiniteSets, TLC

VARIABLES csv_data,        \* the array np.genfromtxt returned
          lower_bounds,    \* argument lower_bounds
          destination_ip,  \* argument destination_ip (None or an int)
          pc,              \* position in plot_csv_features
          ips,             \* local ips: None or the address map
          groups,          \* src_ips / dst_ips: the list being iterated
          idx,             \* position of the running for loop in groups
          plots,           \* graphs saved so far, by destination directory
          stats_log        \* "Destination statistics" lines logged

vars == <<csv_data, lower_bounds, destination_ip, pc, ips, groups, idx,
          plots, stats_log>>

-----------------------------------------------------------------------------
(* Bounds of the model *)

(* Most rows in a file of flows. *)
MaxRecords == 3

(* Most rows in a file of packets. *)
MaxPackets == 2

(* Largest threshold tried. *)
MaxLowerBounds == 3

Addresses == {1, 2}

Times == {0, 1}

Lengths == {0, 1}

(* Flag bitmasks of the classification inputs: every combination of SYN,   *)
(* RST and ACK, and two masks with the other bits FIN and PSH set          *)
(* (FIN+PSH+SYN = 11, FIN+PSH+ACK = 25).                                   *)
FlagValues == {0, 2, 4, 6, 16, 18, 20, 22, 11, 25}

-----------------------------------------------------------------------------
(* Program constants *)

FLAG_SYN == 2

FLAG_RST == 4

FLAG_ACK == 16

FLAG_SYNACK == FLAG_SYN + FLAG_ACK

FLAG_RSTACK == FLAG_RST + FLAG_ACK

TYPE_ICMP == 1

TYPE_TCP == 6

TYPE_UDP == 17

COL_ROWNUM == "rownum"

COL_PROTOCOL == "protocol"

COL_TIME == "time"

COL_SOURCE_IP == "src"

COL_DEST_IP == "dst"

COL_LENGTH == "length"

COL_FLAGS == "flags"

(* The columns in dtype order, as named in the genfromtxt call. *)
Columns == <<COL_ROWNUM, COL_PROTOCOL, COL_TIME, COL_SOURCE_IP, COL_DEST_IP,
             COL_LENGTH, COL_FLAGS>>

None == <<>>

-----------------------------------------------------------------------------
(* Python and numpy primitives *)

(* str(n) of a non-negative integer: its decimal digits. *)
RECURSIVE Str(_)
Str(n) == IF n < 10 THEN <<n>> ELSE Str(n \div 10) \o <<n % 10>>

(* int(s) of a decimal digit string. *)
RECURSIVE ParseInt(_)
ParseInt(s) == IF Len(s) = 0 THEN 0
               ELSE 10 * ParseInt(SubSeq(s, 1, Len(s) - 1)) + s[Len(s)]

(* socket.inet_ntoa(struct.pack("!L", n)): the four bytes of n, most        *)
(* significant first.  The int() of the argument is applied by the caller. *)
ipv4_int_to_dotted(n) ==
    <<(n \div 16777216) % 256, (n \div 65536) % 256, (n \div 256) % 256, n % 256>>

(* a & b on non-negative integers. *)
RECURSIVE BitAnd(_, _)
BitAnd(a, b) == IF a = 0 \/ b = 0 THEN 0
                ELSE (a % 2) * (b % 2) + 2 * BitAnd(a \div 2, b \div 2)

(* np.sum of a column. *)
RECURSIVE Sum(_)
Sum(s) == IF s = <<>> THEN 0 ELSE Head(s) + Sum(Tail(s))

(* np.cumsum of a column. *)
RECURSIVE CumSumFrom(_, _)
CumSumFrom(acc, s) == IF s = <<>> THEN <<>>
                      ELSE <<acc + Head(s)>> \o CumSumFrom(acc + Head(s), Tail(s))

CumSum(s) == CumSumFrom(0, s)

(* arr[col]: one column of a structured array. *)
Column(arr, col) == [i \in 1 .. Len(arr) |-> arr[i][col]]

(* np.ones([n, 2])[:, 1] *)
Ones(n) == [i \in 1 .. n |-> 1]

(* arr[mask]: the rows whose entry in the boolean array mask is TRUE, in   *)
(* their order.                                                            *)
Select(arr, mask) ==
    LET kept[i \in 0 .. Len(arr)] ==
            IF i = 0 THEN <<>>
            ELSE IF mask[i] THEN Append(kept[i - 1], arr[i]) ELSE kept[i - 1]
    IN  kept[Len(arr)]

(* Variant: only the first column of order is used, then the file order. *)
SortKey_FirstColumnOnly(r, order) == <<r[order[1]], r[COL_ROWNUM]>>

(* The sort key of np.sort(arr, order=order): the columns of order, then   *)
(* the remaining columns in dtype order to break ties.                     *)
SortKey(r, order) ==
    LET named == {order[i] : i \in 1 .. Len(order)}
        rest  == Select(Columns, [i \in 1 .. Len(Columns) |-> Columns[i] \notin named])
        cols  == order \o rest
    IN  [i \in 1 .. Len(cols) |-> r[cols[i]]]

RECURSIVE LexLess(_, _)
LexLess(a, b) == IF a = <<>> THEN FALSE
                 ELSE IF Head(a) # Head(b) THEN Head(a) < Head(b)
                 ELSE LexLess(Tail(a), Tail(b))

RECURSIVE SortInsert(_, _, _)
SortInsert(r, s, order) ==
    IF s = <<>> THEN <<r>>
    ELSE IF LexLess(SortKey(r, order), SortKey(Head(s), order)) THEN <<r>> \o s
    ELSE <<Head(s)>> \o SortInsert(r, Tail(s), order)

(* np.sort(arr, order=order) *)
RECURSIVE Sort(_, _)
Sort(arr, order) == IF arr = <<>> THEN <<>>
                    ELSE SortInsert(Head(arr), Sort(Tail(arr), order), order)

(* Variant: the array is cut after every row. *)
SplitOnChange_EveryRow(arr, col) ==
    IF Len(arr) = 0 THEN <<arr>> ELSE [i \in 1 .. Len(arr) |-> <<arr[i]>>]

(* np.split(arr, np.where(np.diff(arr[col]))[0] + 1): cut wherever the     *)
(* column changes; an empty array gives one empty piece.                   *)
RECURSIVE SplitOnChange(_, _)
SplitOnChange(arr, col) ==
    IF Len(arr) <= 1 THEN <<arr>>
    ELSE LET rest == SplitOnChange(Tail(arr), col)
         IN  IF arr[2][col] - arr[1][col] # 0
             THEN <<(<<arr[1]>>)>> \o rest
             ELSE <<(<<arr[1]>> \o Head(rest))>> \o Tail(rest)

(* d[k] = v on a dict. *)
SetItem(d, k, v) == [x \in DOMAIN d \cup {k} |-> IF x = k THEN v ELSE d[x]]

-----------------------------------------------------------------------------
(* Flow classification: the masks of the time-series section *)

(* SYN not ACK *)
IsSyn(r) == BitAnd(r[COL_FLAGS], FLAG_SYN) = FLAG_SYN
            /\ BitAnd(r[COL_FLAGS], FLAG_ACK) # FLAG_ACK

(* Variant: RST is not excluded. *)
IsAck_IgnoresRst(r) == BitAnd(r[COL_FLAGS], FLAG_ACK) = FLAG_ACK
                       /\ BitAnd(r[COL_FLAGS], FLAG_SYN) # FLAG_SYN

(* ACK not SYN or RST *)
IsAck(r) == BitAnd(r[COL_FLAGS], FLAG_ACK) = FLAG_ACK
            /\ BitAnd(r[COL_FLAGS], FLAG_SYN) # FLAG_SYN
            /\ BitAnd(r[COL_FLAGS], FLAG_RST) # FLAG_RST

(* Variant: the bitmask is compared whole instead of masked. *)
IsSynAck_Exact(r) == r[COL_FLAGS] = FLAG_SYNACK

(* SYN-ACK *)
IsSynAck(r) == BitAnd(r[COL_FLAGS], FLAG_SYNACK) = FLAG_SYNACK

(* RST not ACK *)
IsRst(r) == BitAnd(r[COL_FLAGS], FLAG_RST) = FLAG_RST
            /\ BitAnd(r[COL_FLAGS], FLAG_ACK) # FLAG_ACK

(* RST-ACK *)
IsRstAck(r) == BitAnd(r[COL_FLAGS], FLAG_RSTACK) = FLAG_RSTACK

IsTcp(r) == r[COL_PROTOCOL] = TYPE_TCP

IsIcmp(r) == r[COL_PROTOCOL] = TYPE_ICMP

IsUdp(r) == r[COL_PROTOCOL] = TYPE_UDP

syn_connections(data) == Select(data, [i \in 1 .. Len(data) |-> IsSyn(data[i])])

ack_connections(data) == Select(data, [i \in 1 .. Len(data) |-> IsAck(data[i])])

synack_connections(data) == Select(data, [i \in 1 .. Len(data) |-> IsSynAck(data[i])])

rst_connections(data) == Select(data, [i \in 1 .. Len(data) |-> IsRst(data[i])])

rstack_connections(data) == Select(data, [i \in 1 .. Len(data) |-> IsRstAck(data[i])])

tcp_connections(data) == Select(data, [i \in 1 .. Len(data) |-> IsTcp(data[i])])

icmp_connections(data) == Select(data, [i \in 1 .. Len(data) |-> IsIcmp(data[i])])

udp_connections(data) == Select(data, [i \in 1 .. Len(data) |-> IsUdp(data[i])])

-----------------------------------------------------------------------------
(* Locals of plot_csv_features, as functions of the loop position *)

(* Variant: the string is compared with the number, which never matches. *)
FilterAccepts_StrAgainstInt(ip_str) ==
    destination_ip = None

(* destination_ip is None or src_ip == str(destination_ip) *)
FilterAccepts(ip_str) ==
    destination_ip = None \/ ip_str = Str(destination_ip[1])

(* len(csv_data) raises TypeError on a 0-d array: genfromtxt squeezes its  *)
(* result, so a file of exactly one row comes back without a length.       *)
HasLen(arr) == Len(arr) # 1

(* Variant: the comparison is off by one. *)
InsufficientRecords_OffByOne(n, lb) == n + 1 < lb

(* len(csv_data) < lower_bounds *)
InsufficientRecords(n, lb) == n < lb

(* Variant: the threshold itself already qualifies. *)
GateOpens_Inclusive(recv_conns, lb) == recv_conns >= lb

(* Variant: the threshold is ignored. *)
GateOpens_Always(recv_conns, lb) == recv_conns > 0

(* recv_conns > lower_bounds *)
GateOpens(recv_conns, lb) == recv_conns > lb

src_data == groups[idx]

dst_data == groups[idx]

src_ip == Str(src_data[1][COL_SOURCE_IP])

dst_ip == Str(dst_data[1][COL_DEST_IP])

dst_str == ipv4_int_to_dotted(ParseInt(dst_ip))

(* Variant: the sent totals are those of the last record of the group. *)
SentEntry_LastRecordOnly(data) ==
    [received_bytes |-> 0,
     received_connections |-> 0,
     received_earliest |-> 0,
     received_latest |-> 0,
     dst_details |-> <<>>,
     sent_bytes |-> data[Len(data)][COL_LENGTH],
     sent_connections |-> 1,
     sent_earliest |-> data[1][COL_TIME],
     sent_latest |-> data[Len(data)][COL_TIME],
     src_details |-> data]

(* The dict stored for a source address. *)
SentEntry(data) ==
    [received_bytes |-> 0,
     received_connections |-> 0,
     received_earliest |-> 0,
     received_latest |-> 0,
     dst_details |-> <<>>,
     sent_bytes |-> Sum(Column(data, COL_LENGTH)),
     sent_connections |-> Len(data),
     sent_earliest |-> data[1][COL_TIME],
     sent_latest |-> data[Len(data)][COL_TIME],
     src_details |-> data]

(* The dict stored for a destination address not seen as a source. *)
ReceivedEntry(data) ==
    [received_bytes |-> Sum(Column(data, COL_LENGTH)),
     received_connections |-> Len(data),
     received_earliest |-> data[1][COL_TIME],
     received_latest |-> data[Len(data)][COL_TIME],
     dst_details |-> data,
     sent_bytes |-> 0,
     sent_connections |-> 0,
     sent_earliest |-> 0,
     sent_latest |-> 0,
     src_details |-> <<>>]

(* Variant: the connection count of an existing entry is not stored. *)
MergeReceived_NoCount(rec, data) ==
    [rec EXCEPT !.received_bytes = Sum(Column(data, COL_LENGTH)),
                !.src_details = <<>>,
                !.dst_details = data,
                !.received_earliest = data[1][COL_TIME],
                !.received_latest = data[Len(data)][COL_TIME]]

(* Variant: the dict of an address already in ips is replaced by a new one. *)
MergeReceived_Overwrites(rec, data) == ReceivedEntry(data)

(* The item assignments on the dict of an address already in ips. *)
MergeReceived(rec, data) ==
    [rec EXCEPT !.received_bytes = Sum(Column(data, COL_LENGTH)),
                !.received_connections = Len(data),
                !.src_details = <<>>,
                !.dst_details = data,
                !.received_earliest = data[1][COL_TIME],
                !.received_latest = data[Len(data)][COL_TIME]]

(* Variant: the dict is built afresh from the destination's records. *)
ip_rec_Rebuilt == ReceivedEntry(groups[idx])

ip_rec == ips[1][dst_ip]

(* Variant: the column of ones is plotted without the cumsum. *)
CountSeries_NoCumSum(conns) ==
    [x |-> Column(conns, COL_TIME), y |-> Ones(Len(conns))]

(* One line of a time-series subplot: times against the running count. *)
CountSeries(conns) ==
    [x |-> Column(conns, COL_TIME), y |-> CumSum(Ones(Len(conns)))]

(* Variant: the lengths are plotted without the cumsum. *)
ByteSeries_NoCumSum(data) ==
    [x |-> Column(data, COL_TIME), y |-> Column(data, COL_LENGTH)]

(* The bytes-received line: times against the running sum of lengths. *)
ByteSeries(data) ==
    [x |-> Column(data, COL_TIME), y |-> CumSum(Column(data, COL_LENGTH))]

(* Variant: the line is plotted without the length test. *)
PlotIfAny_Unguarded(lines, label, conns) ==
    SetItem(lines, label, CountSeries(conns))

(* if len(conns) > 0: plot the line under label *)
PlotIfAny(lines, label, conns) ==
    IF Len(conns) > 0 THEN SetItem(lines, label, CountSeries(conns)) ELSE lines

(* if len(conns) > 0: ip_rec[key] = len(conns) *)
CountIfAny(rec, key, conns) ==
    IF Len(conns) > 0 THEN SetItem(rec, key, Len(conns)) ELSE rec

(* The lines of the "# by Flag" subplot. *)
FlagLines(data) ==
    LET l0 == SetItem(<<>>, "All", CountSeries(data))
        l1 == PlotIfAny(l0, "SYN", syn_connections(data))
        l2 == PlotIfAny(l1, "ACK", ack_connections(data))
        l3 == PlotIfAny(l2, "SYN-ACK", synack_connections(data))
        l4 == PlotIfAny(l3, "RST", rst_connections(data))
    IN  PlotIfAny(l4, "RST-ACK", rstack_connections(data))

(* The lines of the "# by Type" subplot. *)
TypeLines(data) ==
    LET l1 == PlotIfAny(<<>>, "TCP", tcp_connections(data))
        l2 == PlotIfAny(l1, "ICMP", icmp_connections(data))
    IN  PlotIfAny(l2, "UDP", udp_connections(data))

(* ip_rec after the time-series section has stored its category counts. *)
WithCategoryCounts(rec, data) ==
    LET r1 == CountIfAny(rec, "received_syn", syn_connections(data))
        r2 == CountIfAny(r1, "received_ack", ack_connections(data))
        r3 == CountIfAny(r2, "received_synack", synack_connections(data))
        r4 == CountIfAny(r3, "received_rst", rst_connections(data))
        r5 == CountIfAny(r4, "received_rstack", rstack_connections(data))
        r6 == CountIfAny(r5, "received_tcp", tcp_connections(data))
        r7 == CountIfAny(r6, "received_icmp", icmp_connections(data))
    IN  CountIfAny(r7, "received_udp", udp_connections(data))

(* Variant: the records are split without the sort on the source column. *)
SourceGroups_Unsorted(data) == SplitOnChange(data, COL_SOURCE_IP)

(* dst_src_ips: the destination's records split by source address. *)
SourceGroups(data) ==
    SplitOnChange(Sort(data, <<COL_SOURCE_IP>>), COL_SOURCE_IP)

(* dst_srcs: label, connection count and byte sum per source address. *)
SourceRows(data) ==
    LET g == SourceGroups(data)
    IN  [s \in 1 .. Len(g) |->
            <<ipv4_int_to_dotted(g[s][1][COL_SOURCE_IP]),
              Len(g[s]),
              Sum(Column(g[s], COL_LENGTH))>>]

(* Variant: an address with a single received connection is left out. *)
InStats_MoreThanOne(rec) ==
    "received_connections" \in DOMAIN rec /\ rec.received_connections > 1

(* 'received_connections' in rec and rec['received_connections'] > 0 *)
InStats(rec) ==
    "received_connections" \in DOMAIN rec /\ rec.received_connections > 0

(* The keys logged in a statistics line. *)
StatKeys(rec) == DOMAIN rec \ {"dst_details", "src_details"}

(* Save one graph into the directory of the current destination. *)
SaveGraph(name, graph) ==
    SetItem(plots, dst_str,
            SetItem(IF dst_str \in DOMAIN plots THEN plots[dst_str] ELSE <<>>,
                    name, graph))

-----------------------------------------------------------------------------
(* Inputs *)

(* Flows between the addresses at varying times, all TCP SYN of length 1. *)
TimedFlows ==
    [protocol : {TYPE_TCP}, time : Times, src : Addresses, dst : Addresses,
     length : {1}, flags : {FLAG_SYN}]

(* Flows between the addresses of varying lengths, all TCP SYN at time 0. *)
SizedFlows ==
    [protocol : {TYPE_TCP}, time : {0}, src : Addresses, dst : Addresses,
     length : Lengths, flags : {FLAG_SYN}]

(* Packets of every kind at varying times, from address 2 to address 1. *)
PacketRows ==
    [protocol : {TYPE_TCP}, time : Times, src : {2}, dst : {1},
     length : {1}, flags : FlagValues]
    \cup
    [protocol : {TYPE_ICMP, TYPE_UDP, 2}, time : Times, src : {2}, dst : {1},
     length : {1}, flags : {0}]

(* The array read from a file whose valid rows are body, in file order. *)
Ingest(body) ==
    [i \in 1 .. Len(body) |->
        [rownum |-> i, protocol |-> body[i].protocol, time |-> body[i].time,
         src |-> body[i].src, dst |-> body[i].dst, length |-> body[i].length,
         flags |-> body[i].flags]]

InitOver(rows, most, filters) ==
    /\ \E n \in 0 .. most : \E body \in [1 .. n -> rows] :
           csv_data = Ingest(body)
    /\ lower_bounds \in 1 .. MaxLowerBounds
    /\ destination_ip \in {None} \cup {<<a>> : a \in filters}
    /\ pc = "check"
    /\ ips = None
    /\ groups = None
    /\ idx = 0
    /\ plots = <<>>
    /\ stats_log = {}

Init == InitOver(TimedFlows, MaxRecords, Addresses)

InitBytes == InitOver(SizedFlows, MaxRecords, Addresses)

InitPackets == InitOver(PacketRows, MaxPackets, {})

-----------------------------------------------------------------------------
(* Steps of plot_csv_features *)

(* The length check after parsing; on success, the source sort and split. *)
CheckData ==
    /\ pc = "check"
    /\ IF ~HasLen(csv_data) \/ InsufficientRecords(Len(csv_data), lower_bounds)
       THEN /\ pc' = "done"
            /\ UNCHANGED <<ips, groups, idx>>
       ELSE /\ ips' = <<(<<>>)>>
            /\ groups' = SplitOnChange(Sort(csv_data, <<COL_SOURCE_IP, COL_TIME>>),
                                       COL_SOURCE_IP)
            /\ idx' = 1
            /\ pc' = "src_loop"
    /\ UNCHANGED <<csv_data, lower_bounds, destination_ip, plots, stats_log>>

(* One iteration of "for src_data in src_ips". *)
SrcStep ==
    /\ pc = "src_loop"
    /\ idx <= Len(groups)
    /\ IF Len(src_data) > 0 /\ FilterAccepts(src_ip)
       THEN ips' = <<SetItem(ips[1], src_ip, SentEntry(src_data))>>
       ELSE UNCHANGED ips
    /\ idx' = idx + 1
    /\ UNCHANGED <<csv_data, lower_bounds, destination_ip, pc, groups, plots, stats_log>>

(* After the source loop: the destination sort and split. *)
DstSort ==
    /\ pc = "src_loop"
    /\ idx > Len(groups)
    /\ groups' = SplitOnChange(Sort(csv_data, <<COL_DEST_IP, COL_TIME>>), COL_DEST_IP)
    /\ idx' = 1
    /\ pc' = "dst_loop"
    /\ UNCHANGED <<csv_data, lower_bounds, destination_ip, ips, plots, stats_log>>

(* One iteration of "for dst_data in dst_ips", up to the threshold test. *)
DstStep ==
    /\ pc = "dst_loop"
    /\ idx <= Len(groups)
    /\ IF Len(dst_data) > 0 /\ FilterAccepts(dst_ip)
       THEN /\ ips' = IF dst_ip \notin DOMAIN ips[1]
                      THEN <<SetItem(ips[1], dst_ip, ReceivedEntry(dst_data))>>
                      ELSE <<SetItem(ips[1], dst_ip, MergeReceived(ip_rec, dst_data))>>
            /\ pc' = "gate"
            /\ UNCHANGED idx
       ELSE /\ idx' = idx + 1
            /\ UNCHANGED <<ips, pc>>
    /\ UNCHANGED <<csv_data, lower_bounds, destination_ip, groups, plots, stats_log>>

(* if recv_conns > lower_bounds *)
Gate ==
    /\ pc = "gate"
    /\ IF GateOpens(Len(dst_data), lower_bounds)
       THEN /\ pc' = "connections_summary"
            /\ UNCHANGED idx
       ELSE /\ pc' = "dst_loop"
            /\ idx' = idx + 1
    /\ UNCHANGED <<csv_data, lower_bounds, destination_ip, ips, groups, plots, stats_log>>

(* ports_and_sources.png and connections_summary.png *)
ConnectionSummary ==
    /\ pc = "connections_summary"
    /\ LET unique_data == {<<dst_data[i][COL_SOURCE_IP], dst_data[i][COL_PROTOCOL]>> :
                               i \in 1 .. Len(dst_data)}
           dst_rec == ips[1][dst_ip]
           pies == [pie_conns |-> <<Len(dst_data), dst_rec.sent_connections>>,
                    pie_bytes |-> <<Sum(Column(dst_data, COL_LENGTH)), dst_rec.sent_bytes>>]
       IN  plots' = SetItem(plots, dst_str,
                        [ports_and_sources |-> unique_data,
                         connections_summary |-> pies])
    /\ pc' = "time_series"
    /\ UNCHANGED <<csv_data, lower_bounds, destination_ip, ips, groups, idx, stats_log>>

(* time_series.png, and the category counts stored on the way *)
TimeSeries ==
    /\ pc = "time_series"
    /\ plots' = SaveGraph("time_series",
                          [conn_flags |-> FlagLines(dst_data),
                           conn_types |-> TypeLines(dst_data),
                           brecv |-> ByteSeries(dst_data)])
    /\ ips' = <<SetItem(ips[1], dst_ip, WithCategoryCounts(ip_rec, dst_data))>>
    /\ pc' = "sources_summary"
    /\ UNCHANGED <<csv_data, lower_bounds, destination_ip, groups, idx, stats_log>>

(* sources_summary.png, and the end of the iteration *)
SourceSummary ==
    /\ pc = "sources_summary"
    /\ ips' = <<SetItem(ips[1], dst_ip,
                        SetItem(ip_rec, "received_sources", Len(SourceGroups(dst_data))))>>
    /\ plots' = SaveGraph("sources_summary", SourceRows(dst_data))
    /\ pc' = "dst_loop"
    /\ idx' = idx + 1
    /\ UNCHANGED <<csv_data, lower_bounds, destination_ip, groups, stats_log>>

(* After the destination loop: the statistics lines, then the return. *)
Stats ==
    /\ pc = "dst_loop"
    /\ idx > Len(groups)
    /\ LET stats_ips == {ip \in DOMAIN ips[1] : InStats(ips[1][ip])}
       IN  stats_log' = {[ip |-> ipv4_int_to_dotted(ParseInt(ip)),
                          rec |-> [k \in StatKeys(ips[1][ip]) |-> ips[1][ip][k]]] :
                             ip \in stats_ips}
    /\ ips' = None
    /\ groups' = None
    /\ pc' = "done"
    /\ UNCHANGED <<csv_data, lower_bounds, destination_ip, idx, plots>>

Next ==
    \/ CheckData
    \/ SrcStep
    \/ DstSort
    \/ DstStep
    \/ Gate
    \/ ConnectionSummary
    \/ TimeSeries
    \/ SourceSummary
    \/ Stats

Spec == Init /\ [][Next]_vars

SpecBytes == InitBytes /\ [][Next]_vars

SpecPackets == InitPackets /\ [][Next]_vars

-----------------------------------------------------------------------------
(* What the input says, read off csv_data without the program's sorting,   *)
(* grouping and string keys                                                *)

Rows == 1 .. Len(csv_data)

SentRows(a) == {i \in Rows : csv_data[i].src = a}

ReceivedRows(a) == {i \in Rows : csv_data[i].dst = a}

SeenAddresses == {csv_data[i].src : i \in Rows} \cup {csv_data[i].dst : i \in Rows}

PassesFilter(a) == destination_ip = None \/ destination_ip[1] = a

(* Both passes are over and the map is still bound. *)
Aggregated == pc = "dst_loop" /\ idx > Len(groups)

(* The run got past the length check. *)
Proceeded == Len(csv_data) # 1 /\ Len(csv_data) >= lower_bounds

Analysed(a) == ipv4_int_to_dotted(a) \in DOMAIN plots

Graphs(a) == DOMAIN plots[ipv4_int_to_dotted(a)]

CategoryKeys == {"received_syn", "received_ack", "received_synack", "received_rst",
                 "received_rstack", "received_tcp", "received_icmp", "received_udp",
                 "received_sources"}

(* The statistics lines logged for address a. *)
StatsLines(a) == {l \in stats_log : l.ip = ipv4_int_to_dotted(a)}

FullyAnalysed(a) ==
    /\ Analysed(a)
    /\ Graphs(a) = {"ports_and_sources", "connections_summary", "time_series",
                    "sources_summary"}
    /\ \E l \in StatsLines(a) : "received_sources" \in DOMAIN l.rec

NotAnalysed(a) ==
    /\ ~Analysed(a)
    /\ \A l \in StatsLines(a) : DOMAIN l.rec \cap CategoryKeys = {}

-----------------------------------------------------------------------------
(* C1: when the run has returned, a destination address the filter lets    *)
(* through has the detailed analysis (all graphs and the category          *)
(* breakdown) exactly if strictly more than lower_bounds records name it   *)
(* as destination; with exactly lower_bounds it has none of it.            *)
C1_GateIsStrict ==
    pc = "done" =>
        \A a \in Addresses : PassesFilter(a) =>
            IF Cardinality(ReceivedRows(a)) > lower_bounds
            THEN FullyAnalysed(a)
            ELSE NotAnalysed(a)

(* One run with an address at the threshold and one just above it. *)
C1_Witness ==
    /\ pc = "done"
    /\ \E a, b \in Addresses :
          /\ Cardinality(ReceivedRows(a)) = lower_bounds
          /\ NotAnalysed(a) /\ StatsLines(a) # {}
          /\ Cardinality(ReceivedRows(b)) = lower_bounds + 1
          /\ FullyAnalysed(b)

(* C2: after both passes every entry of the map carries the number of      *)
(* records sent by and the number of records received by its address, and  *)
(* the map holds exactly the seen addresses the filter lets through.       *)
C2_ConnectionCounts ==
    Aggregated =>
        /\ \A k \in DOMAIN ips[1] :
              /\ ips[1][k].sent_connections = Cardinality(SentRows(ParseInt(k)))
              /\ ips[1][k].received_connections = Cardinality(ReceivedRows(ParseInt(k)))
        /\ {ParseInt(k) : k \in DOMAIN ips[1]} = {a \in SeenAddresses : PassesFilter(a)}

(* Two addresses that both sent and received. *)
C2_Witness ==
    /\ Aggregated
    /\ \E k, m \in DOMAIN ips[1] :
          /\ ips[1][k].sent_connections = 1
          /\ ips[1][k].received_connections = 2
          /\ ips[1][m].sent_connections = 2
          /\ ips[1][m].received_connections = 1

(* The sent side of an entry. *)
SentSide(rec) ==
    <<rec.sent_bytes, rec.sent_connections, rec.sent_earliest, rec.sent_latest,
      rec.src_details>>

(* C3: a step of the destination pass that stores the received side of an  *)
(* address already in the map leaves the sent side of its entry, the       *)
(* sent-record collection included, as it was.                             *)
C3_SentSideSurvives ==
    [][(pc = "dst_loop" /\ pc' = "gate" /\ dst_ip \in DOMAIN ips[1])
          => SentSide(ips'[1][dst_ip]) = SentSide(ips[1][dst_ip])]_vars

-----------------------------------------------------------------------------
(* Flag and protocol categories, stated on the bits of the mask *)

(* Bit b (a power of two) of mask f is set. *)
BitSet(f, b) == (f \div b) % 2 = 1

SynOnly(f) == BitSet(f, 2) /\ ~BitSet(f, 16)

AckOnly(f) == BitSet(f, 16) /\ ~BitSet(f, 2) /\ ~BitSet(f, 4)

SynAck(f) == BitSet(f, 2) /\ BitSet(f, 16)

RstOnly(f) == BitSet(f, 4) /\ ~BitSet(f, 16)

RstAck(f) == BitSet(f, 4) /\ BitSet(f, 16)

(* The count stored under key, 0 when the key was never set. *)
Counted(rec, key) == IF key \in DOMAIN rec THEN rec[key] ELSE 0

(* The entry of address a in the map. *)
Entry(a) == ips[1][Str(a)]

(* The time-series section has run for address a and the map is bound. *)
Classified(a) ==
    /\ ips # None
    /\ Analysed(a)
    /\ "time_series" \in Graphs(a)

(* C4: for every analysed address the stored SYN, ACK, SYN-ACK, RST and    *)
(* RST-ACK counts are the numbers of its received records whose mask has   *)
(* SYN without ACK; ACK without SYN and RST; SYN and ACK; RST without ACK; *)
(* RST and ACK; the bits other than 2, 4 and 16 play no part.              *)
C4_FlagCategories ==
    \A a \in Addresses : Classified(a) =>
        LET n(P(_)) == Cardinality({i \in ReceivedRows(a) : P(csv_data[i].flags)})
        IN  /\ Counted(Entry(a), "received_syn") = n(SynOnly)
            /\ Counted(Entry(a), "received_ack") = n(AckOnly)
            /\ Counted(Entry(a), "received_synack") = n(SynAck)
            /\ Counted(Entry(a), "received_rst") = n(RstOnly)
            /\ Counted(Entry(a), "received_rstack") = n(RstAck)

(* A SYN with FIN and PSH set counted as SYN, next to an ACK with FIN and  *)
(* PSH set counted as ACK.                                                 *)
C4_Witness ==
    \E a \in Addresses :
        /\ Classified(a)
        /\ {csv_data[i].flags : i \in ReceivedRows(a)} = {11, 25}
        /\ Counted(Entry(a), "received_syn") = 1
        /\ Counted(Entry(a), "received_ack") = 1
        /\ Counted(Entry(a), "received_synack") = 0

(* The received records of a whose mask is RST+SYN+ACK and nothing else. *)
TripleRows(a) == {i \in ReceivedRows(a) : csv_data[i].flags = 22}

(* The received records of a with any other mask. *)
OtherRows(a) == ReceivedRows(a) \ TripleRows(a)

(* C5 as stated: every RST+SYN+ACK record is counted as SYN-ACK, and none  *)
(* is counted as SYN, ACK, RST or RST-ACK.                                 *)
C5_TripleOnlySynAck ==
    \A a \in Addresses : Classified(a) =>
        /\ Counted(Entry(a), "received_synack") >= Cardinality(TripleRows(a))
        /\ Counted(Entry(a), "received_syn") <= Cardinality(OtherRows(a))
        /\ Counted(Entry(a), "received_ack") <= Cardinality(OtherRows(a))
        /\ Counted(Entry(a), "received_rst") <= Cardinality(OtherRows(a))
        /\ Counted(Entry(a), "received_rstack") <= Cardinality(OtherRows(a))

(* C5 amended: every RST+SYN+ACK record is counted as SYN-ACK and as       *)
(* RST-ACK, and none is counted as SYN, ACK or RST.                        *)
C5_TripleSynAckAndRstAck ==
    \A a \in Addresses : Classified(a) =>
        /\ Counted(Entry(a), "received_synack") >= Cardinality(TripleRows(a))
        /\ Counted(Entry(a), "received_rstack") >= Cardinality(TripleRows(a))
        /\ Counted(Entry(a), "received_syn") <= Cardinality(OtherRows(a))
        /\ Counted(Entry(a), "received_ack") <= Cardinality(OtherRows(a))
        /\ Counted(Entry(a), "received_rst") <= Cardinality(OtherRows(a))

(* An analysed address that received only RST+SYN+ACK records. *)
C5_Witness ==
    \E a \in Addresses :
        /\ Classified(a)
        /\ Cardinality(TripleRows(a)) = 2
        /\ OtherRows(a) = {}
        /\ DOMAIN Entry(a) \cap CategoryKeys
              \subseteq {"received_synack", "received_rstack", "received_tcp",
                         "received_sources"}
        /\ Entry(a)["received_synack"] = 2
        /\ Entry(a)["received_rstack"] = 2

(* The predicate on records that a series label stands for. *)
LabelMatches(label, r) ==
    CASE label = "All" -> TRUE
      [] label = "SYN" -> SynOnly(r.flags)
      [] label = "ACK" -> AckOnly(r.flags)
      [] label = "SYN-ACK" -> SynAck(r.flags)
      [] label = "RST" -> RstOnly(r.flags)
      [] label = "RST-ACK" -> RstAck(r.flags)
      [] label = "TCP" -> r.protocol = 6
      [] label = "ICMP" -> r.protocol = 1
      [] label = "UDP" -> r.protocol = 17

(* The received records of a that a label stands for. *)
LabelRows(a, label) == {i \in ReceivedRows(a) : LabelMatches(label, csv_data[i])}

NonDecreasing(seq) == \A i \in 1 .. Len(seq) - 1 : seq[i] <= seq[i + 1]

(* Series ser has one point per record of rows, in time order, counting up *)
(* by one from 1.                                                          *)
CountsRows(ser, rows) ==
    /\ Len(ser.x) = Cardinality(rows)
    /\ Len(ser.y) = Cardinality(rows)
    /\ NonDecreasing(ser.x)
    /\ \A t \in {csv_data[i].time : i \in Rows} :
          Cardinality({j \in 1 .. Len(ser.x) : ser.x[j] = t})
             = Cardinality({i \in rows : csv_data[i].time = t})
    /\ \A j \in 1 .. Len(ser.y) : ser.y[j] = j
    /\ NonDecreasing(ser.y)

(* The lines of the time-series graph of address a, by label. *)
CountLines(a) ==
    LET g == plots[ipv4_int_to_dotted(a)]["time_series"]
    IN  [label \in DOMAIN g.conn_flags \cup DOMAIN g.conn_types |->
            IF label \in DOMAIN g.conn_flags THEN g.conn_flags[label]
            ELSE g.conn_types[label]]

(* C6: every count series drawn for an analysed address ("All", the flag   *)
(* categories, the protocol categories) has one point per received record  *)
(* of its category in time order, rises by exactly one per point, and so   *)
(* ends at the number of those records; "All" is always drawn.             *)
C6_CountSeries ==
    \A a \in Addresses : (Analysed(a) /\ "time_series" \in Graphs(a)) =>
        /\ "All" \in DOMAIN CountLines(a)
        /\ \A label \in DOMAIN CountLines(a) :
              /\ CountsRows(CountLines(a)[label], LabelRows(a, label))
              /\ LabelRows(a, label) # {}

(* Two records at different times, of which the later one is a SYN and the *)
(* earlier one a UDP packet that came second in the file.                  *)
C6_Witness ==
    \E a \in Addresses :
        /\ Analysed(a) /\ "time_series" \in Graphs(a)
        /\ CountLines(a)["All"] = [x |-> <<0, 1>>, y |-> <<1, 2>>]
        /\ DOMAIN CountLines(a) = {"All", "SYN", "TCP", "UDP"}
        /\ CountLines(a)["SYN"] = [x |-> <<1>>, y |-> <<1>>]
        /\ csv_data[1].time = 1

RECURSIVE LengthSum(_)
LengthSum(rows) ==
    IF rows = {} THEN 0
    ELSE LET i == CHOOSE j \in rows : TRUE
         IN  csv_data[i].length + LengthSum(rows \ {i})

(* C7: the byte series of an analysed address has one point per received   *)
(* record in time order, never falls, and ends at the sum of the lengths   *)
(* of the records received by the address, which is the received byte      *)
(* total stored in its entry.                                              *)
C7_ByteSeries ==
    \A a \in Addresses : (Analysed(a) /\ "time_series" \in Graphs(a)) =>
        LET ser == plots[ipv4_int_to_dotted(a)]["time_series"].brecv
        IN  /\ Len(ser.y) = Cardinality(ReceivedRows(a))
            /\ Len(ser.x) = Len(ser.y)
            /\ NonDecreasing(ser.x)
            /\ NonDecreasing(ser.y)
            /\ ser.y[Len(ser.y)] = LengthSum(ReceivedRows(a))
            /\ ips # None => ser.y[Len(ser.y)] = Entry(a).received_bytes

(* A byte series that stays level over a record of length 0. *)
C7_Witness ==
    \E a \in Addresses :
        /\ Analysed(a) /\ "time_series" \in Graphs(a)
        /\ plots[ipv4_int_to_dotted(a)]["time_series"].brecv.y = <<1, 1, 2>>

(* C8: while the file has fewer records than lower_bounds, the run is at   *)
(* the length check or has returned from it, no address map was built, and *)
(* no graph and no statistics line was emitted.                            *)
C8_ShortCircuit ==
    Len(csv_data) < lower_bounds =>
        /\ pc \in {"check", "done"}
        /\ ips = None
        /\ groups = None
        /\ plots = <<>>
        /\ stats_log = {}

(* A run that returned on two records under a threshold of three. *)
C8_Witness ==
    /\ pc = "done"
    /\ Len(csv_data) = 2
    /\ lower_bounds = 3
    /\ ips = None /\ plots = <<>> /\ stats_log = {}

(* The addresses with a statistics line. *)
LoggedAddresses == {a \in Addresses : StatsLines(a) # {}}

(* The addresses the summary is due to: destination of a record, and let   *)
(* through by the filter.                                                  *)
ReceivingAddresses == {a \in Addresses : PassesFilter(a) /\ ReceivedRows(a) # {}}

MinTime(rows) == CHOOSE t \in {csv_data[i].time : i \in rows} :
                    \A i \in rows : t <= csv_data[i].time

MaxTime(rows) == CHOOSE t \in {csv_data[i].time : i \in rows} :
                    \A i \in rows : t >= csv_data[i].time

(* C10: an address with at most lower_bounds received records never has a  *)
(* category count or a received-source count in its entry or in its        *)
(* statistics line and never has a graph; once both passes are over, its   *)
(* entry still carries its received byte total, connection count and       *)
(* earliest and latest timestamp.                                          *)
C10_BelowThreshold ==
    \A a \in Addresses : Cardinality(ReceivedRows(a)) <= lower_bounds =>
        /\ NotAnalysed(a)
        /\ (ips # None /\ Str(a) \in DOMAIN ips[1])
              => DOMAIN Entry(a) \cap CategoryKeys = {}
        /\ (Aggregated /\ PassesFilter(a) /\ ReceivedRows(a) # {}) =>
              /\ Str(a) \in DOMAIN ips[1]
              /\ Entry(a).received_connections = Cardinality(ReceivedRows(a))
              /\ Entry(a).received_bytes = LengthSum(ReceivedRows(a))
              /\ Entry(a).received_earliest = MinTime(ReceivedRows(a))
              /\ Entry(a).received_latest = MaxTime(ReceivedRows(a))

(* After both passes: an address at the threshold with its totals, next to *)
(* an analysed one.                                                        *)
C10_Witness ==
    /\ Aggregated
    /\ \E a, b \in Addresses :
          /\ Cardinality(ReceivedRows(a)) = lower_bounds
          /\ {Str(a), Str(b)} \subseteq DOMAIN ips[1]
          /\ Entry(a).received_connections = lower_bounds
          /\ Entry(a).received_latest = 1
          /\ DOMAIN Entry(a) \cap CategoryKeys = {}
          /\ Analysed(b)
          /\ "received_sources" \in DOMAIN Entry(b)

(* The category labels and the key each stores its count under. *)
CategoryKey ==
    [label \in {"SYN", "ACK", "SYN-ACK", "RST", "RST-ACK", "TCP", "ICMP", "UDP"} |->
        CASE label = "SYN" -> "received_syn"
          [] label = "ACK" -> "received_ack"
          [] label = "SYN-ACK" -> "received_synack"
          [] label = "RST" -> "received_rst"
          [] label = "RST-ACK" -> "received_rstack"
          [] label = "TCP" -> "received_tcp"
          [] label = "ICMP" -> "received_icmp"
          [] label = "UDP" -> "received_udp"]

(* C11: for an analysed address, a category that none of its received      *)
(* records falls in has no series and no count key, every category that    *)
(* some record falls in has both, and the analysis goes on to the source   *)
(* summary: a finished run has all graphs of the address.                  *)
C11_EmptyCategoryOmitted ==
    \A a \in Addresses : (Analysed(a) /\ "time_series" \in Graphs(a)) =>
        /\ \A label \in DOMAIN CategoryKey :
              /\ label \in DOMAIN CountLines(a) <=> LabelRows(a, label) # {}
              /\ ips # None =>
                    (CategoryKey[label] \in DOMAIN Entry(a) <=> LabelRows(a, label) # {})
        /\ pc \in {"dst_loop", "done"} => "sources_summary" \in Graphs(a)

(* SYN, ACK and SYN-ACK were skipped, RST and UDP after them were drawn,   *)
(* and the source summary followed.                                        *)
C11_Witness ==
    \E a \in Addresses :
        /\ ips # None
        /\ Analysed(a)
        /\ "sources_summary" \in Graphs(a)
        /\ DOMAIN CountLines(a) = {"All", "RST", "TCP", "UDP"}
        /\ DOMAIN Entry(a) \cap CategoryKeys
              = {"received_rst", "received_tcp", "received_udp", "received_sources"}

(* C12: with the filter set to address F, the map never holds a key other  *)
(* than F, no other address is plotted or logged, and after both passes    *)
(* the map holds F exactly if a record names F as source or destination,   *)
(* with the sent counts of the records F sent and the received counts of   *)
(* the records F received; with no such record the map is empty.           *)
C12_IntegerFilter ==
    destination_ip # None =>
        LET F == destination_ip[1]
        IN  /\ ips # None => DOMAIN ips[1] \subseteq {Str(F)}
            /\ DOMAIN plots \subseteq {ipv4_int_to_dotted(F)}
            /\ \A l \in stats_log : l.ip = ipv4_int_to_dotted(F)
            /\ Aggregated =>
                  /\ Str(F) \in DOMAIN ips[1] <=> (SentRows(F) \cup ReceivedRows(F)) # {}
                  /\ Str(F) \in DOMAIN ips[1] =>
                        /\ Entry(F).sent_connections = Cardinality(SentRows(F))
                        /\ Entry(F).sent_bytes = LengthSum(SentRows(F))
                        /\ Entry(F).received_connections = Cardinality(ReceivedRows(F))
                        /\ Entry(F).received_bytes = LengthSum(ReceivedRows(F))

(* The filtered address sent once and received once, among records of      *)
(* another address that alone would have passed the gate.                  *)
C12_Witness ==
    /\ Aggregated
    /\ destination_ip # None
    /\ lower_bounds = 1
    /\ \E b \in Addresses \ {destination_ip[1]} : Cardinality(ReceivedRows(b)) = 2
    /\ Str(destination_ip[1]) \in DOMAIN ips[1]
    /\ Entry(destination_ip[1]).sent_connections = 1
    /\ Entry(destination_ip[1]).received_connections = 1
    /\ plots = <<>>

(* The run is in the destination loop. *)
DstPhase == pc \in {"dst_loop", "gate", "connections_summary", "time_series",
                    "sources_summary"}

(* The addresses whose iteration of the destination loop is over. *)
FinishedAddresses == {groups[j][1].dst : j \in {i \in 1 .. idx - 1 : Len(groups[i]) > 0}}

(* C13: in the destination loop no two iterations are for the same         *)
(* address, the loop only moves forward one iteration at a time over the   *)
(* same list, and a step leaves the map entry and the graphs of every      *)
(* address whose iteration is over as they were.                           *)
C13_SingleForwardPass ==
    [][DstPhase =>
          /\ \A i, j \in 1 .. Len(groups) :
                (i # j /\ Len(groups[i]) > 0 /\ Len(groups[j]) > 0)
                   => groups[i][1].dst # groups[j][1].dst
          /\ DstPhase' =>
                /\ groups' = groups
                /\ idx' \in {idx, idx + 1}
                /\ \A a \in FinishedAddresses :
                      /\ Str(a) \in DOMAIN ips[1] =>
                            (Str(a) \in DOMAIN ips'[1] /\ ips'[1][Str(a)] = ips[1][Str(a)])
                      /\ Analysed(a)' = Analysed(a)
                      /\ Analysed(a) =>
                            plots'[ipv4_int_to_dotted(a)] = plots[ipv4_int_to_dotted(a)]
          /\ ~DstPhase' => pc' = "done"]_vars

(* The second destination is being analysed while the entry of the first,  *)
(* whose iteration is over, sits in the map.                               *)
C13_Witness ==
    /\ pc = "sources_summary"
    /\ idx = 2
    /\ \E a \in FinishedAddresses :
          /\ Str(a) \in DOMAIN ips[1]
          /\ Entry(a).received_connections = 1
          /\ Entry(a).sent_connections = 3

(* The steps of an iteration that follow the destination pass's write. *)
AfterAggregation == pc \in {"gate", "connections_summary", "time_series",
                            "sources_summary"}

(* C14 as stated: the threshold test, the time-series section and the      *)
(* graph steps leave the address map as it is.                             *)
C14_MapOnlyRead == [][AfterAggregation => ips' = ips]_vars

(* The keys a step of the analysis may add to the current entry. *)
AddedKeys == IF pc = "time_series" THEN CategoryKeys \ {"received_sources"}
             ELSE IF pc = "sources_summary" THEN {"received_sources"}
             ELSE {}

(* C14: the threshold test and the connection summary leave the map as it  *)
(* is; the time-series section and the source summary leave every other    *)
(* entry and every key already in the current entry as they are and add to *)
(* the current entry only category counts (time series) or the             *)
(* received-source count (source summary), which the source summary always *)
(* adds.                                                                   *)
C14_AnalysisOnlyAddsCounts ==
    [][AfterAggregation =>
          /\ pc \in {"gate", "connections_summary"} => ips' = ips
          /\ DOMAIN ips'[1] = DOMAIN ips[1]
          /\ \A k \in DOMAIN ips[1] : k # dst_ip => ips'[1][k] = ips[1][k]
          /\ \A f \in DOMAIN ips[1][dst_ip] :
                f \in DOMAIN ips'[1][dst_ip] /\ ips'[1][dst_ip][f] = ips[1][dst_ip][f]
          /\ DOMAIN ips'[1][dst_ip] \ DOMAIN ips[1][dst_ip] \subseteq AddedKeys
          /\ pc = "sources_summary" => "received_sources" \in DOMAIN ips'[1][dst_ip]]_vars

(* An analysed address that also sent: its entry holds the counts the      *)
(* analysis added next to the totals of the two passes.                    *)
C14_Witness ==
    /\ pc = "dst_loop"
    /\ ips # None
    /\ \E a \in Addresses :
          /\ Str(a) \in DOMAIN ips[1]
          /\ {"received_syn", "received_tcp", "received_sources"} \subseteq DOMAIN Entry(a)
          /\ Entry(a).received_connections = 2
          /\ Entry(a).sent_connections = 1
          /\ Entry(a).received_sources = 2

(* The received-vs-sent pies saved for address a. *)
Pies(a) == plots[ipv4_int_to_dotted(a)]["connections_summary"]

(* C15: from the first destination iteration on, every address the filter  *)
(* lets through that sent a record has its sent totals in the map, and the *)
(* sent slices of the pies saved for an address are the number of records  *)
(* it sent and the sum of their lengths, 0 and 0 for one that sent none.   *)
C15_FinalSentTotals ==
    /\ DstPhase =>
          \A a \in Addresses : (PassesFilter(a) /\ SentRows(a) # {}) =>
              /\ Str(a) \in DOMAIN ips[1]
              /\ Entry(a).sent_connections = Cardinality(SentRows(a))
              /\ Entry(a).sent_bytes = LengthSum(SentRows(a))
    /\ \A a \in Addresses : Analysed(a) =>
          /\ Pies(a).pie_conns = <<Cardinality(ReceivedRows(a)), Cardinality(SentRows(a))>>
          /\ Pies(a).pie_bytes = <<LengthSum(ReceivedRows(a)), LengthSum(SentRows(a))>>

(* The pies of an address that received two records and sent one record of *)
(* length 1 are saved.                                                     *)
C15_Witness ==
    \E a \in Addresses :
        /\ Analysed(a)
        /\ Pies(a).pie_conns = <<2, 1>>
        /\ Pies(a).pie_bytes[2] = 1

(* The row numbers of the records in a collection. *)
RowNums(details) == {details[i][COL_ROWNUM] : i \in 1 .. Len(details)}

(* C16: from the end of the source pass on, the entry of an address that   *)
(* sent holds the least and the greatest timestamp of the records it sent; *)
(* after both passes, the entry of an address that received holds the      *)
(* least and the greatest timestamp of the records it received and its     *)
(* received collection holds exactly those records; earliest is never      *)
(* after latest, and both collections of every entry are in non-decreasing *)
(* timestamp order and hold only records of their side.                    *)
C16_EarliestLatest ==
    /\ DstPhase =>
          \A a \in Addresses : (PassesFilter(a) /\ SentRows(a) # {}) =>
              /\ Str(a) \in DOMAIN ips[1]
              /\ Entry(a).sent_earliest = MinTime(SentRows(a))
              /\ Entry(a).sent_latest = MaxTime(SentRows(a))
              /\ Entry(a).sent_earliest <= Entry(a).sent_latest
    /\ Aggregated =>
          \A a \in Addresses : (PassesFilter(a) /\ ReceivedRows(a) # {}) =>
              /\ Str(a) \in DOMAIN ips[1]
              /\ Entry(a).received_earliest = MinTime(ReceivedRows(a))
              /\ Entry(a).received_latest = MaxTime(ReceivedRows(a))
              /\ Entry(a).received_earliest <= Entry(a).received_latest
              /\ RowNums(Entry(a).dst_details) = {csv_data[i][COL_ROWNUM] : i \in ReceivedRows(a)}
    /\ ips # None =>
          \A a \in Addresses : Str(a) \in DOMAIN ips[1] =>
              /\ NonDecreasing(Column(Entry(a).src_details, COL_TIME))
              /\ NonDecreasing(Column(Entry(a).dst_details, COL_TIME))
              /\ RowNums(Entry(a).src_details)
                    \subseteq {csv_data[i][COL_ROWNUM] : i \in SentRows(a)}
              /\ RowNums(Entry(a).dst_details)
                    \subseteq {csv_data[i][COL_ROWNUM] : i \in ReceivedRows(a)}

(* After both passes: an address whose first sent record in the file is    *)
(* later than its second, with both in its collection in time order, and   *)
(* an address that received records at both times.                         *)
C16_Witness ==
    /\ Aggregated
    /\ \E a, b \in Addresses :
          /\ {Str(a), Str(b)} \subseteq DOMAIN ips[1]
          /\ \E i, j \in SentRows(a) : i < j /\ csv_data[i].time > csv_data[j].time
          /\ Entry(a).sent_earliest = 0
          /\ Entry(a).sent_latest = 1
          /\ Column(Entry(a).src_details, COL_TIME) \in {<<0, 1>>, <<0, 1, 1>>, <<0, 0, 1>>}
          /\ Entry(b).received_earliest = 0
          /\ Entry(b).received_latest = 1
          /\ Len(Entry(b).dst_details) >= 2

(* The source addresses among the records address a received. *)
DistinctSources(a) == {csv_data[i].src : i \in ReceivedRows(a)}

(* The records address a received from source s. *)
ReceivedFrom(a, s) == {i \in ReceivedRows(a) : csv_data[i].src = s}

(* The rows of the source summary saved for address a. *)
Breakdown(a) == plots[ipv4_int_to_dotted(a)]["sources_summary"]

(* C17: the source summary saved for an address has one row per source     *)
(* address among the records it received, the row of a source standing at  *)
(* the rank of that source in ascending order and holding the number and   *)
(* the byte sum of the records received from it; the counts of the rows    *)
(* add up to the number of records received and their byte sums to the     *)
(* sum of the lengths received, which are the totals of the entry; and the *)
(* entry's received_sources, which is also the one logged, is the number   *)
(* of rows.                                                                *)
C17_SourceBreakdown ==
    \A a \in Addresses : (Analysed(a) /\ "sources_summary" \in Graphs(a)) =>
        LET rows == Breakdown(a)
        IN  /\ Len(rows) = Cardinality(DistinctSources(a))
            /\ \A s \in DistinctSources(a) :
                  rows[Cardinality({t \in DistinctSources(a) : t < s}) + 1]
                     = <<ipv4_int_to_dotted(s), Cardinality(ReceivedFrom(a, s)),
                         LengthSum(ReceivedFrom(a, s))>>
            /\ Sum([s \in 1 .. Len(rows) |-> rows[s][2]]) = Cardinality(ReceivedRows(a))
            /\ Sum([s \in 1 .. Len(rows) |-> rows[s][3]]) = LengthSum(ReceivedRows(a))
            /\ ips # None =>
                  /\ Entry(a).received_sources = Len(rows)
                  /\ Entry(a).received_connections = Sum([s \in 1 .. Len(rows) |-> rows[s][2]])
                  /\ Entry(a).received_bytes = Sum([s \in 1 .. Len(rows) |-> rows[s][3]])
            /\ \A l \in StatsLines(a) : l.rec.received_sources = Len(rows)

(* The run has returned with a summary of two rows for an address whose    *)
(* first record in the file came from the greater source address.          *)
C17_Witness ==
    /\ pc = "done"
    /\ \E a \in Addresses :
          /\ Analysed(a)
          /\ "sources_summary" \in Graphs(a)
          /\ Len(Breakdown(a)) = 2
          /\ Breakdown(a)[1] = <<ipv4_int_to_dotted(1), 2, 1>>
          /\ Breakdown(a)[2][2] = 1
          /\ \E i, j \in ReceivedRows(a) : i < j /\ csv_data[i].src > csv_data[j].src
          /\ \E l \in StatsLines(a) : l.rec.received_sources = 2

(* The sum of one field over the entries of the map under the given keys. *)
RECURSIVE FieldTotal(_, _)
FieldTotal(keys, field) ==
    IF keys = {} THEN 0
    ELSE LET k == CHOOSE x \in keys : TRUE
         IN  ips[1][k][field] + FieldTotal(keys \ {k}, field)

(* C18: after both passes of a run without a filter, the sent connection   *)
(* counts of all entries of the map add up to the number of records, and   *)
(* so do the received connection counts; the sent byte totals add up to    *)
(* the sum of the lengths of all records, and so do the received byte      *)
(* totals; and the map has an entry for exactly the addresses seen.        *)
C18_Conservation ==
    (Aggregated /\ destination_ip = None) =>
        /\ DOMAIN ips[1] = {Str(a) : a \in SeenAddresses}
        /\ FieldTotal(DOMAIN ips[1], "sent_connections") = Len(csv_data)
        /\ FieldTotal(DOMAIN ips[1], "received_connections") = Len(csv_data)
        /\ FieldTotal(DOMAIN ips[1], "sent_bytes") = LengthSum(Rows)
        /\ FieldTotal(DOMAIN ips[1], "received_bytes") = LengthSum(Rows)

(* After both passes of a run without a filter over three records of two   *)
(* bytes in all, each of two addresses having sent and received.           *)
C18_Witness ==
    /\ Aggregated
    /\ destination_ip = None
    /\ Len(csv_data) = 3
    /\ LengthSum(Rows) = 2
    /\ Cardinality(DOMAIN ips[1]) = 2
    /\ \A k \in DOMAIN ips[1] :
          ips[1][k].sent_connections > 0 /\ ips[1][k].received_connections > 0
    /\ FieldTotal(DOMAIN ips[1], "received_bytes") = 2

(* The run has returned from the length check. *)
ReturnedEarly == pc = "done" /\ idx = 0

(* C19: a run that returned from the length check with fewer records than  *)
(* lower_bounds has no address with more than lower_bounds received        *)
(* records; a run over exactly lower_bounds records does not return from   *)
(* the length check, and in it no address reaches the graphs.              *)
C19_ShortCircuitSuppressesNothing ==
    /\ (ReturnedEarly /\ Len(csv_data) < lower_bounds) =>
          \A a \in Addresses : Cardinality(ReceivedRows(a)) <= lower_bounds
    /\ Len(csv_data) = lower_bounds =>
          /\ ~ReturnedEarly
          /\ pc \notin {"connections_summary", "time_series", "sources_summary"}
          /\ plots = <<>>

====
